---- MODULE Spec2Model ----
(***************************************************************************)
(* Book Store API: the request-handling pipeline                           *)
(*   BookController -> BookService -> BookModel (Mongoose) -> store.       *)
(* Text values are sequences of one-character strings, so that trimming,   *)
(* hyphen removal, regular-expression matching and case folding are        *)
(* computed character by character as the schema and the store do.         *)
(* Money is counted in whole units; dates are ticks of the clock `now`.    *)
(* Request bodies are well-typed JSON.  Five specifications:               *)
(*   Spec           the eight book handlers, the store answering           *)
(*   SpecOutage     the same handlers with a store that may stop answering *)
(*   SpecConcurrent create requests handled side by side                   *)
(*   SpecApp        the app: middleware, routes, the handler dispatched    *)
(*   SpecStartup    the App constructor, the connection attempt, listening *)
(***************************************************************************)
EXTENDS Integers, Sequences, FiniteSets, TLC

VARIABLES
    books,        \* the documents of the books collection
    issued,       \* every _id that was ever stored (ObjectIds are never generated twice)
    now,          \* the server clock
    req,          \* the request being answered
    res,          \* the response to it: [status, body]
    createdOn,    \* history: _id -> the time at which the stored book was created
    createdWith,  \* history: _id -> the book's fields in the body of the create
                  \*          that stored it (until the book is updated or deleted)
    deletedIds,   \* history: the ids of the books deleted so far
    connected,    \* whether the store answers the commands sent to it
    route,        \* the request as received, and the handler it is dispatched to
    commands,     \* the commands sent to the store for the request being answered
    inflight,     \* the create requests being handled side by side
    app           \* the App: NODE_ENV, the layers registered, the connection, the server

vars ==
    <<books, issued, now, req, res, createdWith, createdOn, deletedIds, connected, route,
      commands, inflight, app>>

----------------------------------------------------------------------------
(* Bounds of the model *)

\* ObjectIds are 1..MaxId; any other id is one the store client rejects
MaxId == 2
\* the clock runs from 0 to MaxNow
MaxNow == 1
\* at most MaxRequests create requests are handled side by side
MaxRequests == 2

----------------------------------------------------------------------------
(* Text *)

Rep(c, n) == [i \in 1..n |-> c]

Digits == {"0", "1", "2", "3", "4", "5", "6", "7", "8", "9"}

RECURSIVE TrimLeft(_)
TrimLeft(s) == IF s # <<>> /\ Head(s) = " " THEN TrimLeft(Tail(s)) ELSE s

RECURSIVE TrimRight(_)
TrimRight(s) ==
    IF s # <<>> /\ s[Len(s)] = " " THEN TrimRight(SubSeq(s, 1, Len(s) - 1)) ELSE s

\* String.prototype.trim, the setter installed by `trim: true`
Trim(s) == TrimRight(TrimLeft(s))

UpperLetters ==
    <<"A", "B", "C", "D", "E", "F", "G", "H", "I", "J", "K", "L", "M",
      "N", "O", "P", "Q", "R", "S", "T", "U", "V", "W", "X", "Y", "Z">>
LowerLetters ==
    <<"a", "b", "c", "d", "e", "f", "g", "h", "i", "j", "k", "l", "m",
      "n", "o", "p", "q", "r", "s", "t", "u", "v", "w", "x", "y", "z">>

\* case folding of one character, as the option 'i' of a regular expression does
Lower(c) ==
    IF \E i \in 1..Len(UpperLetters) : UpperLetters[i] = c
    THEN LowerLetters[CHOOSE i \in 1..Len(UpperLetters) : UpperLetters[i] = c]
    ELSE c

\* an object with one key set, and with one key deleted
Override(b, p, v) == [q \in DOMAIN b \cup {p} |-> IF q = p THEN v ELSE b[q]]
Drop(b, p) == [q \in DOMAIN b \ {p} |-> b[q]]

----------------------------------------------------------------------------
(* BookSchema: the paths, their setters and their validators *)

SchemaPaths == {"title", "author", "isbn", "publishedYear", "genre", "price", "inStock"}

\* the paths declared with `trim: true`
TrimmedPaths == {"title", "author", "isbn", "genre"}

\* the paths declared `required`
RequiredPaths == {"title", "author", "isbn", "publishedYear", "genre", "price"}

\* the paths that `timestamps: true` adds and manages
TimestampPaths == {"createdAt", "updatedAt"}

TitleMinLength == 1
TitleMaxLength == 200
AuthorMinLength == 2
IsbnShortLength == 10
IsbnLongLength == 13
PublishedYearMin == 1000
\* new Date().getFullYear(), evaluated once when the schema is defined
PublishedYearMax == 2026
PriceMin == 0

Fiction == <<"F", "i", "c", "t", "i", "o", "n">>
NonFiction == <<"N", "o", "n", "-", "F", "i", "c", "t", "i", "o", "n">>
Science == <<"S", "c", "i", "e", "n", "c", "e">>
Technology == <<"T", "e", "c", "h", "n", "o", "l", "o", "g", "y">>
Biography == <<"B", "i", "o", "g", "r", "a", "p", "h", "y">>
History == <<"H", "i", "s", "t", "o", "r", "y">>
Fantasy == <<"F", "a", "n", "t", "a", "s", "y">>
Mystery == <<"M", "y", "s", "t", "e", "r", "y">>
Romance == <<"R", "o", "m", "a", "n", "c", "e">>
Thriller == <<"T", "h", "r", "i", "l", "l", "e", "r">>
Other == <<"O", "t", "h", "e", "r">>

GenreValues ==
    {Fiction, NonFiction, Science, Technology, Biography, History, Fantasy,
     Mystery, Romance, Thriller, Other}

\* v.replace(/-/g, '')
RemoveHyphens(v) == SelectSeq(v, LAMBDA c : c # "-")

\* a validator that does not remove the hyphens
IsbnValidatorKeepingHyphens(v) ==
    /\ \A i \in 1..Len(v) : v[i] \in Digits
    /\ Len(v) \in {IsbnShortLength, IsbnLongLength}

\* /^(?:\d{10}|\d{13})$/.test(v.replace(/-/g, ''))
IsbnValidator(v) ==
    LET d == RemoveHyphens(v)
    IN  /\ \A i \in 1..Len(d) : d[i] \in Digits
        /\ Len(d) \in {IsbnShortLength, IsbnLongLength}

\* a setter of isbn that also removes the hyphens
ApplySettersRemovingHyphens(p, v) ==
    IF p = "isbn" THEN RemoveHyphens(Trim(v))
    ELSE IF p \in TrimmedPaths THEN Trim(v)
    ELSE v

\* the setter of a path, applied whenever a value is set on a document or
\* cast into an update
ApplySetters(p, v) == IF p \in TrimmedPaths THEN Trim(v) ELSE v

\* doValidate of one path on a value that is present: `required` refuses the
\* empty string, then the path's own validators run
PathValid(p, v) ==
    CASE p = "title" ->
            v # <<>> /\ Len(v) >= TitleMinLength /\ Len(v) <= TitleMaxLength
      [] p = "author" -> v # <<>> /\ Len(v) >= AuthorMinLength
      [] p = "isbn" -> v # <<>> /\ IsbnValidator(v)
      [] p = "publishedYear" -> v >= PublishedYearMin /\ v <= PublishedYearMax
      [] p = "genre" -> v # <<>> /\ v \in GenreValues
      [] p = "price" -> v >= PriceMin
      [] OTHER -> TRUE

\* an _id the store client accepts as an ObjectId
IsObjectId(id) == id >= 1

\* a schema whose paths are not `required`
InvalidPathsOfPresent(d) ==
    {p \in DOMAIN d \cap SchemaPaths : ~PathValid(p, d[p])}

\* the paths of a document that fail validateSync: a required path that is
\* absent, a present path whose value fails, an _id that does not cast
InvalidPaths(d) ==
    {p \in RequiredPaths : p \notin DOMAIN d}
        \cup {p \in DOMAIN d \cap SchemaPaths : ~PathValid(p, d[p])}
        \cup {p \in DOMAIN d \cap {"_id"} : ~IsObjectId(d[p])}

----------------------------------------------------------------------------
(* BookModel: documents and the commands the service issues to the store *)

\* the null a query resolves to when no document matches
Null == [null |-> TRUE]
IsNull(r) == "null" \in DOMAIN r

\* driver ObjectIds are generated fresh: never one that was stored before
FreshIds == {i \in 1..MaxId : i \notin issued}
NewObjectId == CHOOSE i \in FreshIds : \A j \in FreshIds : i <= j

\* a constructor that ignores the body's inStock
NewDocumentAlwaysInStock(bookData) ==
    LET kept == DOMAIN bookData \cap ((SchemaPaths \ {"inStock"}) \cup {"_id"} \cup TimestampPaths)
        set == [p \in kept |-> ApplySetters(p, bookData[p])] @@ ("inStock" :> TRUE)
    IN  IF "_id" \in kept THEN set ELSE set @@ ("_id" :> NewObjectId)

\* new BookModel(bookData): strict mode keeps the schema's paths, _id and the
\* timestamp paths of the body; setters run; defaults fill inStock and _id
NewDocument(bookData) ==
    LET kept == DOMAIN bookData \cap (SchemaPaths \cup {"_id"} \cup TimestampPaths)
        set == [p \in kept |-> ApplySetters(p, bookData[p])]
        d == IF "inStock" \in kept THEN set ELSE set @@ ("inStock" :> TRUE)
    IN  IF "_id" \in kept THEN d ELSE d @@ ("_id" :> NewObjectId)

\* the timestamps plugin's pre-save hook on a new document: createdAt is set
\* only when the document holds none, updatedAt is set to createdAt
SetDocumentTimestamps(d) ==
    LET c == IF "createdAt" \in DOMAIN d THEN d.createdAt ELSE now
    IN  [p \in DOMAIN d \cup TimestampPaths |->
            IF p \in TimestampPaths THEN c ELSE d[p]]

\* a collection whose isbn index is not unique
DuplicateKeyOfIdOnly(d, coll) == \E b \in coll : b["_id"] = d["_id"]

\* the unique indexes of the collection: _id, and isbn (`unique: true`)
DuplicateKey(d, coll) == \E b \in coll : b["_id"] = d["_id"] \/ b.isbn = d.isbn

DuplicateKeyCode == 11000
\* error.code === 11000; the other errors carry no code
HasCode(error, code) == "code" \in DOMAIN error /\ error.code = code

\* newBook.save(): validate, stamp, insert
Save(d) ==
    IF InvalidPaths(d) # {}
    THEN [error |-> [message |-> "Book validation failed"]]
    ELSE IF ~connected
    THEN [error |-> [message |-> "Operation books.insertOne() buffering timed out"]]
    ELSE LET s == SetDocumentTimestamps(d)
         IN  IF DuplicateKey(s, books)
             THEN [error |-> [code |-> DuplicateKeyCode,
                              message |-> "E11000 duplicate key error"]]
             ELSE [doc |-> s]

\* findById / the filter of findByIdAndUpdate and findByIdAndDelete
FindById(id) == {b \in books : b["_id"] = id}

\* castUpdate of { $set: bookData }: strict mode keeps the schema's paths and
\* the setters run on the values
CastUpdate(bookData) ==
    [p \in DOMAIN bookData \cap SchemaPaths |-> ApplySetters(p, bookData[p])]

\* an update that leaves updatedAt as it was
ApplyUpdateUnstamped(old, set) ==
    [p \in DOMAIN old |-> IF p \in DOMAIN set THEN set[p] ELSE old[p]]

\* the document after $set, with updatedAt stamped by the timestamps plugin
ApplyUpdate(old, set) ==
    [p \in DOMAIN old |->
        IF p \in DOMAIN set THEN set[p]
        ELSE IF p = "updatedAt" THEN now
        ELSE old[p]]

\* findByIdAndUpdate(id, { $set }, { new: true, runValidators: true })
FindByIdAndUpdate(id, bookData) ==
    LET set == CastUpdate(bookData)
    IN  IF ~IsObjectId(id)
        THEN [error |-> [message |-> "Cast to ObjectId failed"]]
        ELSE IF \E p \in DOMAIN set : ~PathValid(p, set[p])
        THEN [error |-> [message |-> "Validation failed"]]
        ELSE IF ~connected
        THEN [error |-> [message |-> "Operation books.findOneAndUpdate() buffering timed out"]]
        ELSE IF FindById(id) = {} THEN Null
        ELSE LET old == CHOOSE b \in FindById(id) : TRUE
                 new == ApplyUpdate(old, set)
             IN  IF DuplicateKey(new, books \ {old})
                 THEN [error |-> [code |-> DuplicateKeyCode,
                                  message |-> "E11000 duplicate key error"]]
                 ELSE [doc |-> new, old |-> old]

\* a save that sends the insert again when the store refuses it
SaveCommandsRetrying(d) ==
    IF InvalidPaths(d) # {} THEN <<>>
    ELSE IF connected /\ DuplicateKey(SetDocumentTimestamps(d), books)
    THEN <<"insertOne", "insertOne">>
    ELSE <<"insertOne">>

\* the commands newBook.save() sends to the store: the insert, unless
\* validation fails first
SaveCommands(d) == IF InvalidPaths(d) # {} THEN <<>> ELSE <<"insertOne">>

\* the command of findById and findByIdAndDelete: none when the id fails its
\* cast, which the query finds before it sends anything
FindByIdCommands(id, command) == IF ~IsObjectId(id) THEN <<>> ELSE <<command>>

\* the command of findByIdAndUpdate: none when the id fails its cast or the
\* update its validators
FindByIdAndUpdateCommands(id, bookData) ==
    LET set == CastUpdate(bookData)
    IN  IF ~IsObjectId(id) \/ (\E p \in DOMAIN set : ~PathValid(p, set[p]))
        THEN <<>>
        ELSE <<"findOneAndUpdate">>

\* the i-th character of the pattern against a character of the text, under
\* the option 'i': '.' stands for any character
RegexCharMatches(pc, c) == pc = "." \/ Lower(pc) = Lower(c)

\* a pattern the regular-expression engine compiles: in the alphabet of the
\* model, one without an opening parenthesis (none is ever closed)
RegexCompiles(pattern) == \A i \in 1..Len(pattern) : pattern[i] # "("

\* { $regex: pattern, $options: 'i' } on a text value: an unanchored match
RegexMatches(pattern, text) ==
    \E k \in 0..(Len(text) - Len(pattern)) :
        \A i \in 1..Len(pattern) : RegexCharMatches(pattern[i], text[k + i])

\* the orders .sort({ createdAt: -1 }) may give a set of documents: the
\* order of documents with equal createdAt is the store's choice
SortNewestFirst(docs) ==
    {s \in [1..Cardinality(docs) -> docs] :
        /\ \A i, j \in 1..Cardinality(docs) : i # j => s[i] # s[j]
        /\ \A i, j \in 1..Cardinality(docs) : i < j => s[i].createdAt >= s[j].createdAt}

----------------------------------------------------------------------------
(* BookService *)

\* what a service method gives its caller: [value |-> v], Null, or [thrown |-> message]
Threw(r) == "thrown" \in DOMAIN r

\* a service that does not tell the duplicate-key error from the others
ServiceCreateBookOneMessage(bookData) ==
    LET r == Save(NewDocument(bookData))
    IN  IF "doc" \in DOMAIN r THEN [value |-> r.doc]
        ELSE [thrown |-> "Failed to create book: Book validation failed"]

ServiceCreateBook(bookData) ==
    LET r == Save(NewDocument(bookData))
    IN  IF "doc" \in DOMAIN r THEN [value |-> r.doc]
        ELSE IF HasCode(r.error, DuplicateKeyCode)
             THEN [thrown |-> "A book with this ISBN already exists"]
             ELSE [thrown |-> "Failed to create book: Book validation failed"]

\* BookModel.findById(id).exec(): null when no document has the id, a
\* CastError when the id is no ObjectId
ServiceGetBookById(id) ==
    IF ~IsObjectId(id) THEN [thrown |-> "Failed to fetch book: Cast to ObjectId failed"]
    ELSE IF ~connected THEN [thrown |-> "Failed to fetch book: buffering timed out"]
    ELSE IF FindById(id) = {} THEN Null
    ELSE [value |-> CHOOSE b \in FindById(id) : TRUE]

ServiceDeleteBook(id) ==
    IF ~IsObjectId(id) THEN [thrown |-> "Failed to delete book: Cast to ObjectId failed"]
    ELSE IF ~connected THEN [thrown |-> "Failed to delete book: buffering timed out"]
    ELSE IF FindById(id) = {} THEN Null
    ELSE [value |-> CHOOSE b \in FindById(id) : TRUE]

ServiceUpdateBook(id, bookData) ==
    LET r == FindByIdAndUpdate(id, bookData)
    IN  IF "error" \in DOMAIN r
        THEN IF HasCode(r.error, DuplicateKeyCode)
             THEN [thrown |-> "A book with this ISBN already exists"]
             ELSE [thrown |-> "Failed to update book: validation or cast failed"]
        ELSE IF IsNull(r) THEN Null
        ELSE [value |-> r.doc, old |-> r.old]

\* the documents BookModel.find(...) selects; the service sorts them newest first
ServiceGetAllBooks ==
    IF ~connected THEN [thrown |-> "Failed to fetch books: buffering timed out"]
    ELSE [value |-> books]

ServiceSearchBooks(query) ==
    IF ~connected THEN [thrown |-> "Failed to search books: buffering timed out"]
    ELSE IF ~RegexCompiles(query)
    THEN [thrown |-> "Failed to search books: Regular expression is invalid"]
    ELSE [value |-> {b \in books : RegexMatches(query, b.title)
                                      \/ RegexMatches(query, b.author)}]

\* a genre filter that ignores letter case
ServiceGetBooksByGenreAnyCase(genre) ==
    [value |-> {b \in books :
        /\ Len(b.genre) = Len(genre)
        /\ \A i \in 1..Len(genre) : Lower(b.genre[i]) = Lower(genre[i])}]

ServiceGetBooksByGenre(genre) ==
    IF ~connected THEN [thrown |-> "Failed to fetch books by genre: buffering timed out"]
    ELSE [value |-> {b \in books : b.genre = genre}]

\* a filter that selects every document
ServiceGetInStockBooksUnfiltered == [value |-> books]

ServiceGetInStockBooks ==
    IF ~connected THEN [thrown |-> "Failed to fetch in-stock books: buffering timed out"]
    ELSE [value |-> {b \in books : b.inStock = TRUE}]

----------------------------------------------------------------------------
(* BookController *)

\* no request is being answered: the server waits for the next one
NoRequest == [op |-> "none"]
NoResponse == [status |-> 0, body |-> [success |-> TRUE, message |-> ""]]
Idle == req = NoRequest
\* no request has been received
NoRoute ==
    [method |-> "", path |-> <<>>, malformed |-> FALSE, handler |-> "", logged |-> FALSE]

\* process.env.NODE_ENV: development, production, or not set
Envs == {"development", "production", ""}

\* app.use / app.get in the order of the constructor's calls:
\* initializeMiddleware, initializeRoutes, initializeErrorHandling
MiddlewareLayers == <<"json", "urlencoded", "cors", "logging">>
RouteLayers == <<"health", "apiInfo", "books", "routeNotFound">>
ErrorLayers == <<"errorHandler">>

\* the App when `new App()` begins, and when it serves with the store connected
Constructed(env) ==
    [env |-> env, layers |-> <<>>, connection |-> "none", server |-> "none",
     running |-> TRUE]
Started(env) ==
    [env |-> env, layers |-> MiddlewareLayers \o RouteLayers \o ErrorLayers,
     connection |-> "connected", server |-> "listening", running |-> TRUE]

\* !v in JavaScript for a text field of the body: absent or the empty string
Falsy(bookData, p) == p \notin DOMAIN bookData \/ bookData[p] = <<>>

Failure(status, message) ==
    [status |-> status, body |-> [success |-> FALSE, message |-> message]]

FailureWith(status, message, error) ==
    [status |-> status,
     body |-> [success |-> FALSE, message |-> message, error |-> error]]

Success(status, message, data) ==
    [status |-> status, body |-> [success |-> TRUE, message |-> message, data |-> data]]

\* POST /api/books
CreateBook(bookData) ==
    /\ ("_id" \notin DOMAIN bookData) => FreshIds # {}
    /\ Idle
    /\ req' = [op |-> "createBook", body |-> bookData]
    /\ IF Falsy(bookData, "title") \/ Falsy(bookData, "author") \/ Falsy(bookData, "isbn")
       THEN /\ res' = Failure(400,
                    "Missing required fields: title, author, and isbn are required")
            /\ UNCHANGED <<books, issued, createdWith, createdOn>>
       ELSE LET r == ServiceCreateBook(bookData)
            IN  IF Threw(r)
                THEN /\ res' = FailureWith(400, r.thrown, r.thrown)
                     /\ UNCHANGED <<books, issued, createdWith, createdOn>>
                ELSE /\ res' = Success(201, "Book created successfully", r.value)
                     /\ books' = books \cup {r.value}
                     /\ issued' = issued \cup {r.value["_id"]}
                     /\ createdWith' = Override(createdWith, r.value["_id"],
                                                [p \in DOMAIN bookData \cap SchemaPaths |->
                                                    bookData[p]])
                     /\ createdOn' = Override(createdOn, r.value["_id"], now)
    /\ commands' = IF Falsy(bookData, "title") \/ Falsy(bookData, "author") \/ Falsy(bookData, "isbn")
                   THEN <<>>
                   ELSE SaveCommands(NewDocument(bookData))
    /\ UNCHANGED <<now, deletedIds, connected, route, inflight, app>>

\* a lookup made with findByIdAndDelete
GetBookByIdRemoving(id) ==
    /\ Idle
    /\ req' = [op |-> "getBookById", id |-> id]
    /\ LET r == ServiceDeleteBook(id)
       IN  /\ res' = IF Threw(r) THEN FailureWith(500, "Failed to retrieve book", r.thrown)
                     ELSE IF IsNull(r) THEN Failure(404, "Book not found")
                     ELSE Success(200, "Book retrieved successfully", r.value)
           /\ books' = IF Threw(r) \/ IsNull(r) THEN books ELSE books \ {r.value}
    /\ commands' = FindByIdCommands(id, "findOneAndDelete")
    /\ UNCHANGED <<issued, now, createdWith, createdOn, deletedIds, connected, route,
                   inflight, app>>

\* GET /api/books/:id
GetBookById(id) ==
    /\ Idle
    /\ req' = [op |-> "getBookById", id |-> id]
    /\ LET r == ServiceGetBookById(id)
       IN  res' = IF Threw(r) THEN FailureWith(500, "Failed to retrieve book", r.thrown)
                  ELSE IF IsNull(r) THEN Failure(404, "Book not found")
                  ELSE Success(200, "Book retrieved successfully", r.value)
    /\ commands' = FindByIdCommands(id, "findOne")
    /\ UNCHANGED <<books, issued, now, createdWith, createdOn, deletedIds, connected, route,
                   inflight, app>>

\* DELETE /api/books/:id
DeleteBook(id) ==
    /\ Idle
    /\ req' = [op |-> "deleteBook", id |-> id]
    /\ LET r == ServiceDeleteBook(id)
       IN  IF Threw(r)
           THEN /\ res' = FailureWith(500, "Failed to delete book", r.thrown)
                /\ UNCHANGED <<books, createdWith, createdOn, deletedIds>>
           ELSE IF IsNull(r)
           THEN /\ res' = Failure(404, "Book not found")
                /\ UNCHANGED <<books, createdWith, createdOn, deletedIds>>
           ELSE /\ res' = Success(200, "Book deleted successfully", r.value)
                /\ books' = books \ {r.value}
                /\ createdWith' = Drop(createdWith, id)
                /\ createdOn' = Drop(createdOn, id)
                /\ deletedIds' = deletedIds \cup {id}
    /\ commands' = FindByIdCommands(id, "findOneAndDelete")
    /\ UNCHANGED <<issued, now, connected, route, inflight, app>>

\* a list response that counts the collection instead of the list
ListSuccessCountingStore(message, data) ==
    [status |-> 200,
     body |-> [success |-> TRUE, message |-> message, count |-> Cardinality(books),
               data |-> data]]

ListSuccess(message, data) ==
    [status |-> 200,
     body |-> [success |-> TRUE, message |-> message, count |-> Len(data), data |-> data]]

\* delete updateData._id; delete updateData.createdAt; delete updateData.updatedAt
StripProtected(updateData) ==
    [p \in DOMAIN updateData \ {"_id", "createdAt", "updatedAt"} |-> updateData[p]]

\* PUT /api/books/:id
UpdateBook(id, updateData) ==
    /\ Idle
    /\ req' = [op |-> "updateBook", id |-> id, body |-> updateData]
    /\ LET r == ServiceUpdateBook(id, StripProtected(updateData))
       IN  IF Threw(r)
           THEN /\ res' = FailureWith(400, "Failed to update book", r.thrown)
                /\ UNCHANGED <<books, createdWith>>
           ELSE IF IsNull(r)
           THEN /\ res' = Failure(404, "Book not found")
                /\ UNCHANGED <<books, createdWith>>
           ELSE /\ res' = Success(200, "Book updated successfully", r.value)
                /\ books' = (books \ {r.old}) \cup {r.value}
                /\ createdWith' = Drop(createdWith, id)
    /\ commands' = FindByIdAndUpdateCommands(id, StripProtected(updateData))
    /\ UNCHANGED <<issued, now, createdOn, deletedIds, connected, route, inflight, app>>

\* GET /api/books
GetAllBooks ==
    /\ Idle
    /\ req' = [op |-> "getAllBooks"]
    /\ LET r == ServiceGetAllBooks
       IN  IF Threw(r)
           THEN res' = FailureWith(500, "Failed to retrieve books", r.thrown)
           ELSE \E data \in SortNewestFirst(r.value) :
                    res' = ListSuccess("Books retrieved successfully", data)
    /\ commands' = <<"find">>
    /\ UNCHANGED <<books, issued, now, createdWith, createdOn, deletedIds, connected, route,
                   inflight, app>>

\* GET /api/books/search?q=...   (q: [type |-> typeof q, value |-> its text])
SearchBooks(q) ==
    /\ Idle
    /\ req' = [op |-> "searchBooks", q |-> q]
    /\ IF q.type # "string" \/ q.value = <<>>
       THEN res' = Failure(400, "Search query is required")
       ELSE LET r == ServiceSearchBooks(q.value)
            IN  IF Threw(r)
                THEN res' = FailureWith(500, "Failed to search books", r.thrown)
                ELSE \E data \in SortNewestFirst(r.value) :
                         res' = ListSuccess("Search completed successfully", data)
    /\ commands' = IF q.type # "string" \/ q.value = <<>> THEN <<>> ELSE <<"find">>
    /\ UNCHANGED <<books, issued, now, createdWith, createdOn, deletedIds, connected, route,
                   inflight, app>>

\* GET /api/books/genre/:genre
GetBooksByGenre(genre) ==
    /\ Idle
    /\ req' = [op |-> "getBooksByGenre", genre |-> genre]
    /\ LET r == ServiceGetBooksByGenre(genre)
       IN  IF Threw(r)
           THEN res' = FailureWith(500, "Failed to retrieve books by genre", r.thrown)
           ELSE \E data \in SortNewestFirst(r.value) :
                    res' = ListSuccess("Books retrieved successfully", data)
    /\ commands' = <<"find">>
    /\ UNCHANGED <<books, issued, now, createdWith, createdOn, deletedIds, connected, route,
                   inflight, app>>

\* GET /api/books/stock/available
GetInStockBooks ==
    /\ Idle
    /\ req' = [op |-> "getInStockBooks"]
    /\ LET r == ServiceGetInStockBooks
       IN  IF Threw(r)
           THEN res' = FailureWith(500, "Failed to retrieve in-stock books", r.thrown)
           ELSE \E data \in SortNewestFirst(r.value) :
                    res' = ListSuccess("In-stock books retrieved successfully", data)
    /\ commands' = <<"find">>
    /\ UNCHANGED <<books, issued, now, createdWith, createdOn, deletedIds, connected, route,
                   inflight, app>>

\* the response has been sent; the server waits for the next request
Await ==
    /\ ~Idle
    /\ req' = NoRequest
    /\ res' = NoResponse
    /\ route' = NoRoute
    /\ commands' = <<>>
    /\ UNCHANGED <<books, issued, now, createdWith, createdOn, deletedIds, connected,
                   inflight, app>>

\* new Date().getFullYear() at tick t of the clock, a tick being the turn of
\* a year: PublishedYearMax is the year of tick 0, when the schema was loaded
CalendarYear(t) == PublishedYearMax + t

\* mongoose.connection 'disconnected': the store stops answering
Disconnect ==
    /\ Idle
    /\ connected
    /\ connected' = FALSE
    /\ UNCHANGED <<books, issued, now, req, res, createdWith, createdOn, deletedIds, route,
                   commands, inflight, app>>

\* the driver has reconnected
Reconnect ==
    /\ Idle
    /\ ~connected
    /\ connected' = TRUE
    /\ UNCHANGED <<books, issued, now, req, res, createdWith, createdOn, deletedIds, route,
                   commands, inflight, app>>

\* time passes between requests
Tick ==
    /\ Idle
    /\ now < MaxNow
    /\ now' = now + 1
    /\ UNCHANGED <<books, issued, req, res, createdWith, createdOn, deletedIds, connected, route,
                   commands, inflight, app>>

----------------------------------------------------------------------------
(* The requests of the model *)

\* an ISBN-10, an ISBN-13 written with a hyphen, and IsbnA after a blank
IsbnA == Rep("1", 10)
IsbnB == <<"2", "-">> \o Rep("2", 12)
IsbnAPadded == <<" ">> \o IsbnA
\* the digits of IsbnA written with a hyphen
IsbnAHyphenated == <<"1", "-">> \o Rep("1", 9)

BookA ==
    [title |-> <<"H", "o">>, author |-> <<"A", "b">>, isbn |-> IsbnA,
     publishedYear |-> PublishedYearMax, genre |-> Fantasy, price |-> 10]

BookB ==
    [title |-> <<"A", "b">>, author |-> <<"b", "H", "O">>, isbn |-> IsbnB,
     publishedYear |-> PublishedYearMin, genre |-> Fiction, price |-> PriceMin,
     inStock |-> FALSE]

\* the values a request may give a path besides those of BookA and BookB
Variations(p) ==
    CASE p = "title" -> {<<" ", "H", "o">>, <<" ">>, <<>>, Rep("o", TitleMaxLength + 1)}
      [] p = "author" -> {<<"A">>}
      [] p = "isbn" -> {IsbnB, IsbnAPadded, Rep("1", 11), <<"i", "s", "b", "n">>}
      [] p = "publishedYear" -> {PublishedYearMin - 1, PublishedYearMax + 1}
      [] p = "genre" -> {<<"f", "a", "n", "t", "a", "s", "y">>}
      [] p = "price" -> {PriceMin - 1}
      [] p = "_id" -> 1..MaxId
      [] p = "createdAt" -> {0}
      [] p = "updatedAt" -> {0}
      [] OTHER -> {}

\* create bodies: BookA and BookB, BookA with one field left out, with one
\* field given another value, with _id or a timestamp supplied, and BookB
\* with another isbn
CreateBodies ==
    {BookA, BookB}
        \cup {Drop(BookA, p) : p \in RequiredPaths}
        \cup UNION {{Override(BookA, p, v) : v \in Variations(p)} :
                       p \in RequiredPaths \cup {"_id"} \cup TimestampPaths}
        \cup {Override(BookB, "isbn", IsbnA)}

\* update bodies: the example of the API guide, the same with the protected
\* fields supplied, and bodies of one field: a padded title, the isbn of
\* BookA and of BookB, and a value that fails validation for isbn,
\* publishedYear and price
UpdateBodies ==
    LET example == [price |-> 5, inStock |-> FALSE]
        protected == [createdAt |-> MaxNow + 1, updatedAt |-> MaxNow + 1, _id |-> MaxId]
    IN  {example, example @@ protected,
         [title |-> <<" ", "H", "o">>],
         [isbn |-> IsbnA], [isbn |-> IsbnB], [isbn |-> Rep("1", IsbnShortLength + 1)],
         [publishedYear |-> PublishedYearMax + 1],
         [price |-> PriceMin - 1]}

RequestIds == 0..MaxId

Text(s) == [type |-> "string", value |-> s]

\* ?q=...: plain words, words in another case, patterns, no q, q given twice
SearchQueries ==
    {Text(<<"h", "o">>), Text(<<"A", "B">>), Text(<<"b">>), Text(<<"x">>),
     Text(<<".">>), Text(<<"h", ".">>), Text(<<"(">>), Text(<<>>),
     [type |-> "undefined", value |-> <<>>], [type |-> "object", value |-> <<>>]}

\* /genre/:genre
GenreParams == {Fantasy, Fiction, Science, <<"f", "a", "n", "t", "a", "s", "y">>}

----------------------------------------------------------------------------

\* an empty collection and no request
NothingYet ==
    /\ books = {}
    /\ issued = {}
    /\ now = 0
    /\ req = NoRequest
    /\ res = NoResponse
    /\ createdWith = << >>
    /\ createdOn = << >>
    /\ deletedIds = {}
    /\ route = NoRoute
    /\ commands = <<>>
    /\ inflight = << >>

Init ==
    /\ NothingYet
    /\ connected = TRUE
    /\ app = Started("production")

Next ==
    \/ \E bookData \in CreateBodies : CreateBook(bookData)
    \/ \E id \in RequestIds : GetBookById(id)
    \/ \E id \in RequestIds : DeleteBook(id)
    \/ \E id \in RequestIds, updateData \in UpdateBodies : UpdateBook(id, updateData)
    \/ GetAllBooks
    \/ \E q \in SearchQueries : SearchBooks(q)
    \/ \E genre \in GenreParams : GetBooksByGenre(genre)
    \/ GetInStockBooks
    \/ Await
    \/ Tick

Spec == Init /\ [][Next]_vars

----------------------------------------------------------------------------
(* The same handlers with a store that may stop answering *)

\* a valid body, a second one, the first with its isbn hyphenated, one the
\* controller refuses and one the schema refuses
OutageCreateBodies ==
    {BookA, BookB, Override(BookA, "isbn", IsbnAHyphenated),
     Drop(BookA, "title"), Override(BookA, "price", PriceMin - 1)}

OutageUpdateBodies ==
    {[price |-> 5, inStock |-> FALSE], [price |-> PriceMin - 1], [isbn |-> IsbnA],
     [isbn |-> <<" ">> \o IsbnAHyphenated]}

OutageSearchQueries == {Text(<<"h", "o">>), Text(<<>>)}

NextOutage ==
    \/ \E bookData \in OutageCreateBodies : CreateBook(bookData)
    \/ \E id \in RequestIds : GetBookById(id)
    \/ \E id \in RequestIds : DeleteBook(id)
    \/ \E id \in RequestIds, updateData \in OutageUpdateBodies : UpdateBook(id, updateData)
    \/ GetAllBooks
    \/ \E q \in OutageSearchQueries : SearchBooks(q)
    \/ GetBooksByGenre(Fantasy)
    \/ GetInStockBooks
    \/ Await
    \/ Disconnect
    \/ Reconnect

SpecOutage == Init /\ [][NextOutage]_vars

----------------------------------------------------------------------------
(* Creates handled side by side.  createBook is an async function: it runs  *)
(* to `await newBook.save()`, and the store takes the inserts of the        *)
(* requests in hand one at a time, in any order.                            *)

\* BookA; BookA's isbn after a blank, in another book, and with an _id
\* supplied; BookB; and bodies the controller and the schema refuse
ConcurrentCreateBodies ==
    {BookA, BookB,
     Override(BookA, "isbn", IsbnAPadded),
     Override(BookB, "isbn", IsbnA),
     Override(BookA, "_id", 1),
     Drop(BookA, "title"),
     Override(BookA, "price", PriceMin - 1)}

InHand == DOMAIN inflight

\* the requests in hand that wait for the store
Saving == {q \in InHand : inflight[q].pc = "saving"}

\* POST /api/books arrives: the controller's presence check answers at once,
\* or the handler waits for save(); `beside` keeps the requests that were
\* waiting for the store when this one arrived
BeginCreate(r, bookData) ==
    /\ Idle
    /\ r \notin InHand
    /\ inflight' =
           Override(inflight, r,
               IF Falsy(bookData, "title") \/ Falsy(bookData, "author") \/ Falsy(bookData, "isbn")
               THEN [body |-> bookData, pc |-> "answered", beside |-> Saving,
                     res |-> Failure(400,
                         "Missing required fields: title, author, and isbn are required")]
               ELSE [body |-> bookData, pc |-> "saving", beside |-> Saving,
                     res |-> NoResponse])
    /\ UNCHANGED <<books, issued, now, req, res, createdWith, createdOn, deletedIds,
                   connected, route, commands, app>>

\* save() of request r settles: the document was refused by validation, or
\* the store took the insert and stored the book or met a duplicate key
SettleCreate(r) ==
    /\ r \in InHand
    /\ inflight[r].pc = "saving"
    /\ ("_id" \notin DOMAIN inflight[r].body) => FreshIds # {}
    /\ LET result == ServiceCreateBook(inflight[r].body)
       IN  IF Threw(result)
           THEN /\ inflight' = [inflight EXCEPT ![r].pc = "answered",
                                    ![r].res = FailureWith(400, result.thrown, result.thrown)]
                /\ UNCHANGED <<books, issued, createdWith, createdOn>>
           ELSE /\ inflight' = [inflight EXCEPT ![r].pc = "answered",
                                    ![r].res = Success(201, "Book created successfully",
                                                       result.value)]
                /\ books' = books \cup {result.value}
                /\ issued' = issued \cup {result.value["_id"]}
                /\ createdWith' = Override(createdWith, result.value["_id"],
                                           [p \in DOMAIN inflight[r].body \cap SchemaPaths |->
                                               inflight[r].body[p]])
                /\ createdOn' = Override(createdOn, result.value["_id"], now)
    /\ UNCHANGED <<now, req, res, deletedIds, connected, route, commands, app>>

\* the response of request r has been sent
EndCreate(r) ==
    /\ r \in InHand
    /\ inflight[r].pc = "answered"
    /\ inflight' = [q \in InHand \ {r} |-> [inflight[q] EXCEPT !.beside = @ \ {r}]]
    /\ UNCHANGED <<books, issued, now, req, res, createdWith, createdOn, deletedIds,
                   connected, route, commands, app>>

NextConcurrent ==
    \/ \E r \in 1..MaxRequests, bookData \in ConcurrentCreateBodies : BeginCreate(r, bookData)
    \/ \E r \in 1..MaxRequests : SettleCreate(r)
    \/ \E r \in 1..MaxRequests : EndCreate(r)

SpecConcurrent == Init /\ [][NextConcurrent]_vars

----------------------------------------------------------------------------
(* App: the middleware and the routes a request passes before a handler     *)
(* answers it.  A path is the sequence of its segments.                     *)

\* route patterns: a segment is a literal or a named parameter
ParamSegments == {":id", ":genre"}

\* the routes in the order an id lookup registered first would give them
BookRouteTableIdFirst ==
    << [method |-> "POST", pattern |-> <<>>, handler |-> "createBook"],
       [method |-> "GET", pattern |-> <<>>, handler |-> "getAllBooks"],
       [method |-> "GET", pattern |-> <<":id">>, handler |-> "getBookById"],
       [method |-> "GET", pattern |-> <<"search">>, handler |-> "searchBooks"],
       [method |-> "GET", pattern |-> <<"stock", "available">>, handler |-> "getInStockBooks"],
       [method |-> "GET", pattern |-> <<"genre", ":genre">>, handler |-> "getBooksByGenre"],
       [method |-> "PUT", pattern |-> <<":id">>, handler |-> "updateBook"],
       [method |-> "DELETE", pattern |-> <<":id">>, handler |-> "deleteBook"] >>

\* BookRoutes.initializeRoutes: the routes in the order of registration
BookRouteTable ==
    << [method |-> "POST", pattern |-> <<>>, handler |-> "createBook"],
       [method |-> "GET", pattern |-> <<>>, handler |-> "getAllBooks"],
       [method |-> "GET", pattern |-> <<"search">>, handler |-> "searchBooks"],
       [method |-> "GET", pattern |-> <<"stock", "available">>, handler |-> "getInStockBooks"],
       [method |-> "GET", pattern |-> <<"genre", ":genre">>, handler |-> "getBooksByGenre"],
       [method |-> "GET", pattern |-> <<":id">>, handler |-> "getBookById"],
       [method |-> "PUT", pattern |-> <<":id">>, handler |-> "updateBook"],
       [method |-> "DELETE", pattern |-> <<":id">>, handler |-> "deleteBook"] >>

\* a route pattern against a path: segment by segment, a parameter taking
\* any segment
PatternMatches(pattern, path) ==
    /\ Len(pattern) = Len(path)
    /\ \A i \in 1..Len(pattern) : pattern[i] \in ParamSegments \/ pattern[i] = path[i]

\* the routes of the router that match the request, by their place
MatchingRoutes(method, path) ==
    {i \in 1..Len(BookRouteTable) :
        /\ BookRouteTable[i].method = method
        /\ PatternMatches(BookRouteTable[i].pattern, path)}

\* where the router is mounted: app.use('/api/books', ...)
BooksMount == <<"api", "books">>

UnderMount(path) ==
    Len(path) >= Len(BooksMount) /\ SubSeq(path, 1, Len(BooksMount)) = BooksMount

\* a CORS middleware that passes OPTIONS requests on
DispatchWithoutPreflight(method, path, malformed) ==
    IF malformed THEN "errorHandler"
    ELSE IF method = "GET" /\ path = <<"health">> THEN "health"
    ELSE IF method = "GET" /\ path = <<"api">> THEN "apiInfo"
    ELSE IF UnderMount(path)
            /\ MatchingRoutes(method, SubSeq(path, Len(BooksMount) + 1, Len(path))) # {}
    THEN LET m == MatchingRoutes(method, SubSeq(path, Len(BooksMount) + 1, Len(path)))
         IN  BookRouteTable[CHOOSE i \in m : \A j \in m : i <= j].handler
    ELSE "routeNotFound"

\* the layer of the app that ends the request: the body parser's error goes
\* to the error middleware, the CORS middleware answers OPTIONS, then the
\* routes in the order of registration, the first match answering; what no
\* route matches reaches the 404 handler
Dispatch(method, path, malformed) ==
    IF malformed THEN "errorHandler"
    ELSE IF method = "OPTIONS" THEN "preflight"
    ELSE IF method = "GET" /\ path = <<"health">> THEN "health"
    ELSE IF method = "GET" /\ path = <<"api">> THEN "apiInfo"
    ELSE IF UnderMount(path)
            /\ MatchingRoutes(method, SubSeq(path, Len(BooksMount) + 1, Len(path))) # {}
    THEN LET m == MatchingRoutes(method, SubSeq(path, Len(BooksMount) + 1, Len(path)))
         IN  BookRouteTable[CHOOSE i \in m : \A j \in m : i <= j].handler
    ELSE "routeNotFound"

\* whether the logging middleware sees the request: it comes after the body
\* parsers, whose error skips it, and after the CORS middleware, which ends
\* an OPTIONS request without calling next()
Logged(method, malformed) == ~malformed /\ method # "OPTIONS"

\* a request arrives and is dispatched
Receive(method, path, malformed) ==
    /\ Idle
    /\ route = NoRoute
    /\ route' = [method |-> method, path |-> path, malformed |-> malformed,
                 handler |-> Dispatch(method, path, malformed),
                 logged |-> Logged(method, malformed)]
    /\ UNCHANGED <<books, issued, now, req, res, createdWith, createdOn, deletedIds, connected,
                   commands, inflight, app>>

Routed(handler) == route.handler = handler

\* req.params.id: the segment as an id (1..MaxId are the ObjectIds)
IdParam(segment) ==
    IF \E i \in 1..MaxId : segment = ToString(i)
    THEN CHOOSE i \in 1..MaxId : segment = ToString(i)
    ELSE 0

\* req.params.genre: the characters of the segment
GenreParam(segment) ==
    CASE segment = "Fantasy" -> Fantasy
      [] segment = "Fiction" -> Fiction
      [] segment = "fantasy" -> <<"f", "a", "n", "t", "a", "s", "y">>
      [] OTHER -> <<"x">>

\* the parameter of the route: the first segment after the mount, or the
\* second after a literal one
ParamOf(path, place) == path[Len(BooksMount) + place]

AppCreateBodies == {BookA, BookB}
AppUpdateBodies == {[price |-> 5, inStock |-> FALSE]}
AppSearchQueries == {Text(<<"h", "o">>), [type |-> "undefined", value |-> <<>>]}

RouteCreateBook ==
    \E bookData \in AppCreateBodies : Routed("createBook") /\ CreateBook(bookData)

RouteGetAllBooks == Routed("getAllBooks") /\ GetAllBooks

RouteSearchBooks ==
    \E q \in AppSearchQueries : Routed("searchBooks") /\ SearchBooks(q)

RouteGetInStockBooks == Routed("getInStockBooks") /\ GetInStockBooks

RouteGetBooksByGenre ==
    Routed("getBooksByGenre") /\ GetBooksByGenre(GenreParam(ParamOf(route.path, 2)))

RouteGetBookById ==
    Routed("getBookById") /\ GetBookById(IdParam(ParamOf(route.path, 1)))

RouteUpdateBook ==
    \E updateData \in AppUpdateBodies :
        Routed("updateBook") /\ UpdateBook(IdParam(ParamOf(route.path, 1)), updateData)

RouteDeleteBook ==
    Routed("deleteBook") /\ DeleteBook(IdParam(ParamOf(route.path, 1)))

\* a handler of the app answers with this status and body
Answer(op, status, body) ==
    /\ Idle
    /\ req' = [op |-> op]
    /\ res' = [status |-> status, body |-> body]
    /\ commands' = <<>>
    /\ UNCHANGED <<books, issued, now, createdWith, createdOn, deletedIds, connected, route,
                   inflight, app>>

\* res.sendStatus(200): the body is the text OK, not JSON
Preflight == Routed("preflight") /\ Answer("preflight", 200, [text |-> "OK"])

\* GET /health
Health ==
    /\ Routed("health")
    /\ Answer("health", 200,
              [success |-> TRUE, message |-> "Server is running", timestamp |-> now])

\* GET /api
ApiInfo ==
    /\ Routed("apiInfo")
    /\ Answer("apiInfo", 200,
              [success |-> TRUE, message |-> "Welcome to the Book Store API",
               version |-> "1.0.0",
               endpoints |-> [books |-> "/api/books", health |-> "/health"]])

\* the 404 handler for undefined routes
RouteNotFound ==
    /\ Routed("routeNotFound")
    /\ Answer("routeNotFound", 404,
              [success |-> FALSE, message |-> "Route not found", path |-> route.path])

\* the error middleware; NODE_ENV decides whether err.message is sent
ErrorHandler ==
    /\ Routed("errorHandler")
    /\ Answer("errorHandler", 500,
              [success |-> FALSE, message |-> "Internal server error",
               error |-> IF app.env = "development" THEN "Unexpected token in JSON"
                         ELSE "Something went wrong"])

Methods == {"GET", "POST", "PUT", "DELETE", "OPTIONS", "PATCH"}

\* the paths requested: those of the API guide, one per route, and paths
\* that no route or only the id route matches
AppPaths ==
    {<<>>, <<"health">>, <<"api">>, BooksMount, <<"books">>,
     BooksMount \o <<"search">>,
     BooksMount \o <<"stock", "available">>,
     BooksMount \o <<"stock">>,
     BooksMount \o <<"genre", "Fantasy">>,
     BooksMount \o <<"genre", "fantasy">>,
     BooksMount \o <<"genre">>,
     BooksMount \o <<"abc">>,
     BooksMount \o <<"1", "genre">>}
        \cup {BooksMount \o <<ToString(i)>> : i \in 1..MaxId}

NextApp ==
    \/ \E method \in Methods, path \in AppPaths : Receive(method, path, FALSE)
    \/ \E method \in {"POST", "PUT", "OPTIONS"} : Receive(method, BooksMount, TRUE)
    \/ RouteCreateBook
    \/ RouteGetAllBooks
    \/ RouteSearchBooks
    \/ RouteGetInStockBooks
    \/ RouteGetBooksByGenre
    \/ RouteGetBookById
    \/ RouteUpdateBook
    \/ RouteDeleteBook
    \/ Preflight
    \/ Health
    \/ ApiInfo
    \/ RouteNotFound
    \/ ErrorHandler
    \/ Await

InitApp ==
    /\ NothingYet
    /\ connected = TRUE
    /\ app \in {Started(env) : env \in Envs}

SpecApp == InitApp /\ [][NextApp]_vars

----------------------------------------------------------------------------
(* Startup: `new App()` runs the constructor to its end; the connection     *)
(* attempt settles and the server's 'listening' event arrives afterwards,   *)
(* in either order.  Requests are served once the server listens.           *)

\* this.initializeMiddleware()
InitializeMiddleware ==
    /\ app.running
    /\ app.layers = <<>>
    /\ app' = [app EXCEPT !.layers = MiddlewareLayers]
    /\ UNCHANGED <<books, issued, now, req, res, createdWith, createdOn, deletedIds,
                   connected, route, commands, inflight>>

\* this.initializeRoutes()
InitializeRoutes ==
    /\ app.running
    /\ app.layers = MiddlewareLayers
    /\ app' = [app EXCEPT !.layers = @ \o RouteLayers]
    /\ UNCHANGED <<books, issued, now, req, res, createdWith, createdOn, deletedIds,
                   connected, route, commands, inflight>>

\* this.initializeErrorHandling()
InitializeErrorHandling ==
    /\ app.running
    /\ app.layers = MiddlewareLayers \o RouteLayers
    /\ app' = [app EXCEPT !.layers = @ \o ErrorLayers]
    /\ UNCHANGED <<books, issued, now, req, res, createdWith, createdOn, deletedIds,
                   connected, route, commands, inflight>>

\* this.connectDatabase(): runs to `await mongoose.connect(...)` and returns
\* its promise, which the constructor does not await
ConnectDatabase ==
    /\ app.running
    /\ app.layers = MiddlewareLayers \o RouteLayers \o ErrorLayers
    /\ app.connection = "none"
    /\ app' = [app EXCEPT !.connection = "connecting"]
    /\ UNCHANGED <<books, issued, now, req, res, createdWith, createdOn, deletedIds,
                   connected, route, commands, inflight>>

\* this.startServer(): app.listen(PORT, callback)
StartServer ==
    /\ app.running
    /\ app.connection = "connecting"
    /\ app.server = "none"
    /\ app' = [app EXCEPT !.server = "binding"]
    /\ UNCHANGED <<books, issued, now, req, res, createdWith, createdOn, deletedIds,
                   connected, route, commands, inflight>>

\* the server is bound: the callback of app.listen runs
Listening ==
    /\ app.running
    /\ app.server = "binding"
    /\ app' = [app EXCEPT !.server = "listening"]
    /\ UNCHANGED <<books, issued, now, req, res, createdWith, createdOn, deletedIds,
                   connected, route, commands, inflight>>

\* mongoose.connect resolves, after the constructor has returned
ConnectSucceeds ==
    /\ Idle
    /\ app.running
    /\ app.connection = "connecting"
    /\ app.server # "none"
    /\ app' = [app EXCEPT !.connection = "connected"]
    /\ connected' = TRUE
    /\ UNCHANGED <<books, issued, now, req, res, createdWith, createdOn, deletedIds,
                   route, commands, inflight>>

\* a catch block that ends the process
ConnectFailsExiting ==
    /\ Idle
    /\ app.running
    /\ app.connection = "connecting"
    /\ app.server # "none"
    /\ app' = [app EXCEPT !.connection = "failed", !.running = FALSE]
    /\ UNCHANGED <<books, issued, now, req, res, createdWith, createdOn, deletedIds,
                   connected, route, commands, inflight>>

\* mongoose.connect rejects: the catch block logs and returns
ConnectFails ==
    /\ Idle
    /\ app.running
    /\ app.connection = "connecting"
    /\ app.server # "none"
    /\ app' = [app EXCEPT !.connection = "failed"]
    /\ UNCHANGED <<books, issued, now, req, res, createdWith, createdOn, deletedIds,
                   connected, route, commands, inflight>>

\* the process serves requests
Serving == app.running /\ app.server = "listening"

InitStartup ==
    /\ NothingYet
    /\ connected = FALSE
    /\ app = Constructed("production")

\* the constructor's calls and the server's event: no step of these waits
\* for anything but the one before it
StartupStep ==
    \/ InitializeMiddleware
    \/ InitializeRoutes
    \/ InitializeErrorHandling
    \/ ConnectDatabase
    \/ StartServer
    \/ Listening

NextStartup ==
    \/ StartupStep
    \/ ConnectSucceeds
    \/ ConnectFails
    \/ Serving /\ \E bookData \in OutageCreateBodies : CreateBook(bookData)
    \/ Serving /\ \E id \in RequestIds : GetBookById(id)
    \/ Serving /\ \E id \in RequestIds : DeleteBook(id)
    \/ Serving /\ \E id \in RequestIds, updateData \in OutageUpdateBodies :
                      UpdateBook(id, updateData)
    \/ Serving /\ GetAllBooks
    \/ Serving /\ Await

SpecStartup == InitStartup /\ [][NextStartup]_vars /\ WF_vars(StartupStep)

----------------------------------------------------------------------------
(* Properties.  A step that answers a request goes from an idle state to    *)
(* one holding the request and its response: in such a step the unprimed    *)
(* variables are the store before the request and the primed ones the       *)
(* request, the response and the store after it.                            *)

Answers(op) == Idle /\ req'.op = op

IdsOf(coll) == {b["_id"] : b \in coll}

\* the elements of a list response
Elements(data) == {data[i] : i \in 1..Len(data)}

\* the body carries every required field with a value that meets the
\* schema's constraint (the constraint applies to the value as set on the
\* document, that is after the path's setter)
FieldsValid(bookData) ==
    \A p \in RequiredPaths :
        p \in DOMAIN bookData /\ PathValid(p, ApplySetters(p, bookData[p]))

DuplicateIsbnMessage == "A book with this ISBN already exists"

UniqueIsbn(coll) == \A a, b \in coll : a # b => a.isbn # b.isbn

\* the update names an isbn that another stored book holds
IsbnHeldByAnother(id, updateData, coll) ==
    /\ "isbn" \in DOMAIN updateData
    /\ \E target, other \in coll :
          /\ target["_id"] = id
          /\ other # target
          /\ other.isbn = ApplySetters("isbn", updateData.isbn)

\* C1: after every step no two stored books have the same isbn, and an update
\* that would give a book the isbn of another stored book is answered 400 and
\* leaves the store as it was
C1_IsbnUnique ==
    [][/\ UniqueIsbn(books')
       /\ (Answers("updateBook") /\ IsbnHeldByAnother(req'.id, req'.body, books))
              => (res'.status = 400 /\ books' = books)]_vars

\* an update to another book's isbn was refused with two books stored
C1_Witness ==
    /\ req.op = "updateBook"
    /\ IsbnHeldByAnother(req.id, req.body, books)
    /\ res.status = 400
    /\ res.body.error = DuplicateIsbnMessage
    /\ Cardinality(books) = 2

IsbnInUse(bookData, coll) ==
    "isbn" \in DOMAIN bookData /\ \E b \in coll : b.isbn = bookData.isbn

DuplicateRefused ==
    /\ res'.status = 400
    /\ res'.body.message = DuplicateIsbnMessage
    /\ books' = books

C3_ValidCreate ==
    [][(/\ Answers("createBook")
        /\ FieldsValid(req'.body)
        /\ ~\E b \in books : b.isbn = ApplySetters("isbn", req'.body.isbn))
           => /\ res'.status = 201
              /\ res'.body.success = TRUE
              /\ \E d \in books' :
                    /\ d \notin books
                    /\ books' = books \cup {d}
                    /\ d["_id"] \notin IdsOf(books)
                    /\ TimestampPaths \subseteq DOMAIN d]_vars

UpdateEffect(Given(_, _)) ==
    \E old \in books, new \in books' :
        /\ old["_id"] = req'.id
        /\ new["_id"] = old["_id"]
        /\ res'.body.data = new
        /\ \A p \in DOMAIN req'.body \cap SchemaPaths : new[p] = Given(p, req'.body[p])
        /\ \A p \in SchemaPaths \ DOMAIN req'.body : new[p] = old[p]
        /\ new.updatedAt = now
        /\ new.createdAt = old.createdAt
        /\ books' \ {new} = books \ {old}

AsSupplied(p, v) == v

\* C5 as stated: a successful update sets exactly the named fields to the
\* supplied values, stamps updatedAt, and leaves the id, createdAt, the
\* unnamed fields and every other book unchanged
C5_AsStated ==
    [][(Answers("updateBook") /\ res'.status = 200) => UpdateEffect(AsSupplied)]_vars

\* C5, amended: a successful update sets exactly the named fields to the
\* supplied values, text values with their surrounding whitespace trimmed,
\* stamps updatedAt, and leaves the id, createdAt (also when the body supplies
\* one), the unnamed fields and every other book unchanged
C5_PartialUpdate ==
    [][(Answers("updateBook") /\ res'.status = 200) => UpdateEffect(ApplySetters)]_vars

\* a body that supplied createdAt updated a book, after the clock advanced,
\* with another book stored
C5_Witness ==
    /\ req.op = "updateBook"
    /\ res.status = 200
    /\ "createdAt" \in DOMAIN req.body
    /\ res.body.data.createdAt # req.body.createdAt
    /\ res.body.data.updatedAt > res.body.data.createdAt
    /\ Cardinality(books) = 2

ListOps == {"getAllBooks", "searchBooks", "getBooksByGenre", "getInStockBooks"}

\* the update body passes the schema's validation, so that the answer depends
\* on the id alone
UpdateBodyValid(updateData) ==
    \A p \in DOMAIN CastUpdate(StripProtected(updateData)) :
        PathValid(p, CastUpdate(StripProtected(updateData))[p])

\* C6: a delete of a stored id is answered 200 with the book as it was and
\* removes exactly that book; once an id has been deleted, every get, delete
\* or (valid) update on it is answered 404 and no list, search, genre or
\* in-stock response contains a book with that id
C6_DeleteIsFinal ==
    [][/\ (Answers("deleteBook") /\ FindById(req'.id) # {})
              => /\ res'.status = 200
                 /\ res'.body.data \in FindById(req'.id)
                 /\ books' = books \ {res'.body.data}
       /\ \A id \in deletedIds :
              /\ (Answers("getBookById") /\ req'.id = id) => res'.status = 404
              /\ (Answers("deleteBook") /\ req'.id = id) => res'.status = 404
              /\ (Answers("updateBook") /\ req'.id = id /\ UpdateBodyValid(req'.body))
                     => res'.status = 404
              /\ (Idle /\ req'.op \in ListOps /\ "data" \in DOMAIN res'.body)
                     => id \notin IdsOf(Elements(res'.body.data))]_vars

\* C7: a get-by-id with an id that no stored book has is answered 404 with
\* success = false
C7_GetUnknownId ==
    [][(Answers("getBookById") /\ FindById(req'.id) = {})
           => (res'.status = 404 /\ res'.body.success = FALSE)]_vars

\* what a get answers for a book created and since neither updated nor
\* deleted, the fields of the create body read back as Given
ReadBack(Given(_, _)) ==
    (Answers("getBookById") /\ req'.id \in DOMAIN createdWith)
        => /\ res'.status = 200
           /\ res'.body.data["_id"] = req'.id
           /\ \A p \in DOMAIN createdWith[req'.id] :
                  res'.body.data[p] = Given(p, createdWith[req'.id][p])

\* C8 as stated: a get of a book created and since neither updated nor
\* deleted is answered 200 with every field of the create body at the value
\* the body gave
C8_AsStated == [][ReadBack(AsSupplied)]_vars

\* C8, amended: a get of a book created and since neither updated nor deleted
\* is answered 200 with every field of the create body at the value the body
\* gave, text values with their surrounding whitespace trimmed
C8_CreateThenGet == [][ReadBack(ApplySetters)]_vars

\* a book created with a blank before its isbn was read back, with another
\* book stored
C8_Witness ==
    /\ req.op = "getBookById"
    /\ req.id \in DOMAIN createdWith
    /\ res.status = 200
    /\ createdWith[req.id].isbn # res.body.data.isbn
    /\ Cardinality(books) = 2

\* q occurs in text as a literal substring, letter case ignored
ContainsIgnoringCase(q, text) ==
    \E k \in 0..(Len(text) - Len(q)) :
        \A i \in 1..Len(q) : Lower(q[i]) = Lower(text[k + i])

\* C9: a search with a non-empty query string is answered 200 with exactly
\* the stored books whose title or author contains the query as a literal
\* substring, letter case ignored
C9_SearchLiteral ==
    [][(Answers("searchBooks") /\ req'.q.type = "string" /\ req'.q.value # <<>>)
           => /\ res'.status = 200
              /\ Elements(res'.body.data) =
                     {b \in books : \/ ContainsIgnoringCase(req'.q.value, b.title)
                                    \/ ContainsIgnoringCase(req'.q.value, b.author)}]_vars

SameIgnoringCase(a, b) ==
    Len(a) = Len(b) /\ \A i \in 1..Len(a) : Lower(a[i]) = Lower(b[i])

C11_InStockExact ==
    [][Answers("getInStockBooks")
           => /\ res'.status = 200
              /\ Elements(res'.body.data) = {b \in books : b.inStock}
              /\ \A b \in books : ~b.inStock => b \notin Elements(res'.body.data)]_vars

\* the filter answered with one of two stored books, the other having been
\* taken out of stock by an update
C11_Witness ==
    /\ req.op = "getInStockBooks"
    /\ res.body.count = 1
    /\ Cardinality(books) = 2
    /\ \E b \in books : ~b.inStock /\ b.updatedAt > b.createdAt

\* the request passes the checks made before a command is sent to the store
ReachesStore ==
    CASE req'.op = "createBook" ->
            /\ FieldsValid(req'.body)
            /\ "_id" \in DOMAIN req'.body => IsObjectId(req'.body["_id"])
      [] req'.op = "updateBook" -> IsObjectId(req'.id) /\ UpdateBodyValid(req'.body)
      [] req'.op \in {"getBookById", "deleteBook"} -> IsObjectId(req'.id)
      [] req'.op = "searchBooks" -> req'.q.type = "string" /\ req'.q.value # <<>>
      [] OTHER -> TRUE

\* C12: a request whose command the store does not answer is answered 500,
\* whatever the operation; while the store does not answer, 400 is given only
\* to requests refused before the store is asked (validation errors and
\* malformed parameters)
C12_StoreFailureIs500 ==
    [][(Idle /\ req'.op # "none" /\ ~connected)
           => /\ ReachesStore => res'.status = 500
              /\ res'.status = 400 => ~ReachesStore]_vars

\* C13: a get, a delete or a (valid) update with an id that is no ObjectId is
\* answered 404, as for a well-formed id that no book has, and the store is
\* unchanged
C13_MalformedIdIs404 ==
    [][(/\ Idle
        /\ req'.op \in {"getBookById", "updateBook", "deleteBook"}
        /\ ~IsObjectId(req'.id)
        /\ req'.op = "updateBook" => UpdateBodyValid(req'.body))
           => (res'.status = 404 /\ books' = books)]_vars

\* C14: the timestamps of every stored book are assigned by the server: a
\* created book has the time of its creation as createdAt and updatedAt,
\* whatever the body supplies; an updated book has the time of the update as
\* updatedAt; and the createdAt of a stored book never changes
C14_TimestampsServerAssigned ==
    [][/\ (Answers("createBook") /\ res'.status = 201)
              => (res'.body.data.createdAt = now /\ res'.body.data.updatedAt = now)
       /\ (Answers("updateBook") /\ res'.status = 200)
              => res'.body.data.updatedAt = now
       /\ \A old \in books, new \in books' :
              old["_id"] = new["_id"] => new.createdAt = old.createdAt]_vars

\* the handler that the three literal paths must reach
LiteralRoutesReached(r) ==
    (r.method = "GET" /\ UnderMount(r.path) /\ r.handler # "errorHandler")
        => LET sub == SubSeq(r.path, Len(BooksMount) + 1, Len(r.path))
           IN  /\ sub = <<"search">> => r.handler = "searchBooks"
               /\ sub = <<"stock", "available">> => r.handler = "getInStockBooks"
               /\ (Len(sub) = 2 /\ sub[1] = "genre") => r.handler = "getBooksByGenre"

\* C15: a GET of /api/books/search, /api/books/stock/available or
\* /api/books/genre/<g> is dispatched to the search, in-stock or genre handler
\* and never to the id lookup; the handler that answers a request is the one
\* it was dispatched to, and once it has answered no other handler acts on
\* the request
C15_Routing ==
    [][/\ LiteralRoutesReached(route')
       /\ (Idle /\ req' # NoRequest) => (route' = route /\ req'.op = route.handler)
       /\ ~Idle => (req' = NoRequest /\ route' = NoRoute)]_vars

\* GET /api/books/search was answered by the search handler with a list
C15_Witness ==
    /\ route.method = "GET"
    /\ route.path = BooksMount \o <<"search">>
    /\ req.op = "searchBooks"
    /\ res.status = 200
    /\ books # {}

EnvelopeKeys == {"success", "message", "data", "count", "error"}

\* C20: the body of every response of the book handlers, /health, /api, the
\* 404 handler and the error middleware holds a boolean success and a
\* message, and no key besides success, message, data, count and error
C20_Envelope ==
    (req # NoRequest /\ req.op # "preflight")
        => /\ {"success", "message"} \subseteq DOMAIN res.body
           /\ res.body.success \in BOOLEAN
           /\ DOMAIN res.body \subseteq EnvelopeKeys

\* without its hyphens the value is 10 or 13 decimal digits
TenOrThirteenDigits(v) ==
    LET d == SelectSeq(v, LAMBDA c : c # "-")
    IN  Len(d) \in {10, 13} /\ \A i \in 1..Len(d) : d[i] \in Digits

\* every required field of the body but p is present and valid
OthersValid(bookData, p) ==
    \A q \in RequiredPaths \ {p} :
        q \in DOMAIN bookData /\ PathValid(q, ApplySetters(q, bookData[q]))

\* the create was not refused by validation: the book was stored, or the
\* insert met a duplicate key
CreatePassedValidation ==
    res'.status = 201 \/ res'.body.message = DuplicateIsbnMessage

\* the update was not refused by validation
UpdatePassedValidation ==
    res'.status \in {200, 404}
        \/ ("error" \in DOMAIN res'.body /\ res'.body.error = DuplicateIsbnMessage)

\* a write whose other fields are valid passes validation exactly when its
\* isbn, read as Given, is 10 or 13 digits without its hyphens; otherwise it
\* is answered 400 and stores nothing
IsbnRule(Given(_, _)) ==
    /\ (Answers("createBook") /\ "isbn" \in DOMAIN req'.body /\ OthersValid(req'.body, "isbn"))
           => IF TenOrThirteenDigits(Given("isbn", req'.body.isbn))
              THEN CreatePassedValidation
              ELSE res'.status = 400 /\ books' = books
    /\ (/\ Answers("updateBook")
        /\ "isbn" \in DOMAIN req'.body
        /\ IsObjectId(req'.id)
        /\ UpdateBodyValid(Drop(req'.body, "isbn")))
           => IF TenOrThirteenDigits(Given("isbn", req'.body.isbn))
              THEN UpdatePassedValidation
              ELSE res'.status = 400 /\ books' = books

\* C16 as stated: an isbn is accepted if and only if, without its hyphens, it
\* is 10 or 13 decimal digits; any other value fails the write with 400
C16_AsStated == [][IsbnRule(AsSupplied)]_vars

\* C16, amended: an isbn is accepted if and only if, with its surrounding
\* whitespace trimmed and without its hyphens, it is 10 or 13 decimal digits;
\* any other value fails the write with 400
C16_IsbnRule == [][IsbnRule(ApplySetters)]_vars

\* a book was created with a hyphen in its isbn while another was stored
C16_Witness ==
    /\ req.op = "createBook"
    /\ res.status = 201
    /\ \E i \in 1..Len(req.body.isbn) : req.body.isbn[i] = "-"
    /\ Cardinality(books) = 2

\* C17: a write whose other fields are valid passes validation exactly when
\* 1000 <= publishedYear <= the calendar year at the time of the request;
\* otherwise it is answered 400
C17_YearRule ==
    [][/\ (/\ Answers("createBook")
           /\ "publishedYear" \in DOMAIN req'.body
           /\ OthersValid(req'.body, "publishedYear"))
              => IF /\ req'.body.publishedYear >= 1000
                    /\ req'.body.publishedYear <= CalendarYear(now)
                 THEN CreatePassedValidation
                 ELSE res'.status = 400
       /\ (/\ Answers("updateBook")
           /\ "publishedYear" \in DOMAIN req'.body
           /\ IsObjectId(req'.id)
           /\ UpdateBodyValid(Drop(req'.body, "publishedYear")))
              => IF /\ req'.body.publishedYear >= 1000
                    /\ req'.body.publishedYear <= CalendarYear(now)
                 THEN UpdatePassedValidation
                 ELSE res'.status = 400]_vars

\* C18: list-all returns every stored book exactly once; list-all, search,
\* the genre filter and the in-stock filter return their results by
\* createdAt descending, and a book created later is never listed after a
\* book created earlier
C18_NewestFirst ==
    [][(Idle /\ req'.op \in ListOps /\ res'.status = 200)
           => LET data == res'.body.data
              IN  /\ req'.op = "getAllBooks"
                         => (Elements(data) = books /\ Len(data) = Cardinality(books))
                  /\ \A i, j \in 1..Len(data) :
                         i < j => data[i].createdAt >= data[j].createdAt
                  /\ \A i, j \in 1..Len(data) :
                         i < j => createdOn[data[i]["_id"]] >= createdOn[data[j]["_id"]]]_vars

\* C19: an update of an id that no stored book has is answered 404 (its body
\* being valid), an update with a value that violates its constraint is
\* answered 400, and an update answered 400 or 404 leaves every stored book
\* as it was
C19_RejectedUpdate ==
    [][Answers("updateBook")
           => /\ (FindById(req'.id) = {} /\ UpdateBodyValid(req'.body))
                     => res'.status = 404
              /\ ~UpdateBodyValid(req'.body) => res'.status = 400
              /\ res'.status \in {400, 404} => books' = books]_vars

\* the isbn values, read as Given, of the create requests in hand, and the
\* requests in hand that carry the value v
IsbnsInHand(Given(_, _)) ==
    {Given("isbn", inflight[r].body.isbn) :
        r \in {q \in InHand : "isbn" \in DOMAIN inflight[q].body}}
SameIsbn(Given(_, _), v) ==
    {r \in InHand : /\ "isbn" \in DOMAIN inflight[r].body
                    /\ Given("isbn", inflight[r].body.isbn) = v}

Answered(r) == inflight[r].pc = "answered"
Created(r) == Answered(r) /\ inflight[r].res.status = 201
Holding(v) == {b \in books : b.isbn = v}

\* of the requests G, at most one is answered 201 and every other answer is 400
OneWinner(G) ==
    /\ Cardinality({r \in G : Created(r)}) <= 1
    /\ \A r \in G : (Answered(r) /\ ~Created(r)) => inflight[r].res.status = 400

C22_Startup ==
    /\ [](/\ app.connection # "none"
                 => app.layers = MiddlewareLayers \o RouteLayers \o ErrorLayers
          /\ app.server # "none" => app.connection # "none"
          /\ app.running)
    /\ <>(app.server = "listening")
    /\ [](app.connection = "failed" => <>(app.server = "listening"))

\* with the connection attempt failed, the server listens and answers a
\* request
C22_Witness ==
    /\ app.connection = "failed"
    /\ app.server = "listening"
    /\ req.op = "getAllBooks"
    /\ res.status = 500

\* the request was refused by a parameter check of the controller
RefusedByController ==
    \/ /\ req.op = "createBook"
       /\ Falsy(req.body, "title") \/ Falsy(req.body, "author") \/ Falsy(req.body, "isbn")
    \/ /\ req.op = "searchBooks"
       /\ req.q.type # "string" \/ req.q.value = <<>>

\* C23: the handling of a request sends at most one command to the store, no
\* command twice, also when the store refuses it; a request refused by a
\* parameter check of the controller sends none
C23_OneCommand ==
    req # NoRequest
        => /\ Len(commands) <= 1
           /\ \A i, j \in 1..Len(commands) : commands[i] = commands[j] => i = j
           /\ RefusedByController => commands = <<>>

\* the store refused an insert for a duplicate key, and the insert was sent
\* once
C23_Witness ==
    /\ req.op = "createBook"
    /\ res.status = 400
    /\ res.body.message = DuplicateIsbnMessage
    /\ commands = <<"insertOne">>

\* the text the error middleware sends outside development mode
GenericError == "Something went wrong"

\* C24: outside development mode a response with status 500, of a book
\* handler or of the error middleware, has no error field or the generic text
\* in it
C24_NoErrorDetail ==
    (req # NoRequest /\ res.status = 500 /\ app.env # "development")
        => ("error" \notin DOMAIN res.body \/ res.body.error = GenericError)

\* what becomes of a request: the handler it is dispatched to answers it
\* with the status, the logging middleware does not see it, and no command
\* is sent to the store
EndsUnlogged(handler, status) ==
    /\ route.handler = handler
    /\ ~route.logged
    /\ req # NoRequest => (req.op = handler /\ res.status = status /\ commands = <<>>)

\* C25 as stated: every OPTIONS request is answered 200 by the CORS
\* middleware; it is not logged, reaches no route handler and not the 404
\* handler, and causes no store command
C25_AsStated == route.method = "OPTIONS" => EndsUnlogged("preflight", 200)

\* C25, amended: every OPTIONS request whose body the body parsers accept is
\* answered 200 by the CORS middleware, and one whose body they refuse is
\* answered 500 by the error middleware; neither is logged, reaches a route
\* handler or the 404 handler, or causes a store command
C25_Preflight ==
    route.method = "OPTIONS"
        => IF route.malformed THEN EndsUnlogged("errorHandler", 500)
           ELSE EndsUnlogged("preflight", 200)

\* OPTIONS on the path of a stored book was answered 200 by the CORS
\* middleware
C25_Witness ==
    /\ route.method = "OPTIONS"
    /\ route.path = BooksMount \o <<"1">>
    /\ req.op = "preflight"
    /\ res.status = 200
    /\ 1 \in IdsOf(books)

ReadOps ==
    {"getAllBooks", "getBookById", "searchBooks", "getBooksByGenre", "getInStockBooks",
     "health", "apiInfo"}

\* C26: a list-all, get-by-id, search, genre filter, in-stock filter, /health
\* or /api request, answered with success or with failure, leaves the set of
\* stored books and every field of every book as it was
C26_ReadsKeepStore == [][(Idle /\ req'.op \in ReadOps) => books' = books]_vars

\* a get-by-id failed with two books stored
C26_Witness ==
    /\ req.op = "getBookById"
    /\ res.status = 500
    /\ Cardinality(books) = 2

BookOps ==
    {"createBook", "getAllBooks", "getBookById", "updateBook", "deleteBook",
     "searchBooks", "getBooksByGenre", "getInStockBooks"}

\* C27: in every response of a book handler success is true exactly when the
\* status is 200 or 201, data is present only when success is true, and in a
\* list response count is the number of elements of data
C27_SuccessIffOk ==
    req.op \in BookOps
        => /\ res.body.success = (res.status \in {200, 201})
           /\ "data" \in DOMAIN res.body => res.body.success = TRUE
           /\ (req.op \in ListOps /\ "data" \in DOMAIN res.body)
                  => /\ "count" \in DOMAIN res.body
                     /\ res.body.count = Len(res.body.data)

\* the genre filter answered with one of two stored books
C27_Witness ==
    /\ req.op = "getBooksByGenre"
    /\ res.status = 200
    /\ res.body.success = TRUE
    /\ res.body.count = 1
    /\ Cardinality(books) = 2

\* a stored book holds the digits of the isbn under another spelling
SameDigitsStored(isbn, coll) ==
    \E b \in coll : b.isbn # Trim(isbn) /\ RemoveHyphens(b.isbn) = RemoveHyphens(Trim(isbn))

\* C28: a created or updated book holds the isbn of the body with the
\* surrounding whitespace trimmed and the hyphens kept; a valid create whose
\* isbn has the digits of a stored isbn under another hyphenation is answered
\* 201, and both books are stored
C28_IsbnStoredAsSupplied ==
    [][/\ (Answers("createBook") /\ res'.status = 201)
              => /\ res'.body.data.isbn = Trim(req'.body.isbn)
                 /\ res'.body.data \in books'
       /\ (Answers("updateBook") /\ res'.status = 200 /\ "isbn" \in DOMAIN req'.body)
              => /\ res'.body.data.isbn = Trim(req'.body.isbn)
                 /\ res'.body.data \in books'
       /\ (/\ Answers("createBook")
           /\ connected
           /\ FieldsValid(req'.body)
           /\ "_id" \notin DOMAIN req'.body
           /\ SameDigitsStored(req'.body.isbn, books)
           /\ \A b \in books : b.isbn # Trim(req'.body.isbn))
              => /\ res'.status = 201
                 /\ books' = books \cup {res'.body.data}
                 /\ SameDigitsStored(req'.body.isbn, books')]_vars

\* a book was created whose isbn has the digits of the other stored book's
\* isbn and a hyphen that the other has not
C28_Witness ==
    /\ req.op = "createBook"
    /\ res.status = 201
    /\ res.body.data.isbn = IsbnAHyphenated
    /\ \E b \in books : b.isbn = IsbnA
    /\ Cardinality(books) = 2

====
